---------------------------- MODULE Spec2Model ----------------------------
(***************************************************************************)
(* Math 24: the solvability search (findSolution), the puzzle generator    *)
(* (generateSolvablePuzzle) and the game component (Math24Game) of         *)
(* src/math24-game/src/Math24Game.tsx.                                     *)
(*                                                                         *)
(* Numbers.  The code computes with IEEE doubles.  The model computes      *)
(* with exact fractions <<p, q>> (q > 0, not reduced) and compares them    *)
(* by cross multiplication.  Every value the search can form from four     *)
(* integers in 1..9 has a denominator of at most 9^3, so a value is        *)
(* either exactly 24 (exactly 0) or at least 1/729 away from it, while     *)
(* the rounding error of at most three double operations on such values    *)
(* is below 1e-12: the two tolerance tests of the code (1e-6 and 1e-9)     *)
(* decide the same on the double and on the exact value.  The tolerances   *)
(* are kept in the model as the code writes them.                          *)
(*                                                                         *)
(* Strings.  An expression text is a sequence of one-character strings.    *)
(***************************************************************************)
EXTENDS Integers, Sequences, FiniteSets, TLC

\* ------------------------------------------------------------- bounds ----
\* The 4-tuples findSolution is called with directly are those over
\* 1..MaxNum (and the test vectors of the specification).
MaxNum == 5
\* The random source of the generator is let to draw DrawLo..DrawHi, out of
\* the 1..9 of the code.
DrawLo == 4
DrawHi == 5
\* Longest expression the player builds, in tokens.
MaxTokens == 1
\* Most hint requests in flight at a time.
MaxPending == 1

\* ---------------------------------------------------- program constants --
Target == 24
\* 1e-6 = 1 / TargetTolInv, 1e-9 = 1 / DivGuardInv
TargetTolInv == 1000000
DivGuardInv == 1000000000
PuzzleSize == 4
\* Math.floor(Math.random() * 9) + 1 is a number MinDigit..MaxDigit
MinDigit == 1
MaxDigit == 9

Modes == {"easy", "hard"}
NoSolution == <<>>

\* --------------------------------------------------------- arithmetic ----
Abs(x) == IF x < 0 THEN -x ELSE x

Frac(p, q) == <<p, q>>

\* |v| < 1 / inv, for v = p/q with q > 0, without forming |p| * inv when
\* it is the larger side.
AbsLessThanInv(v, inv) ==
    LET p == Abs(v[1])
        q == v[2]
    IN  p <= q \div inv /\ p * inv < q

FracAdd(a, b) == Frac(a[1] * b[2] + b[1] * a[2], a[2] * b[2])
FracSub(a, b) == Frac(a[1] * b[2] - b[1] * a[2], a[2] * b[2])
FracMul(a, b) == Frac(a[1] * b[1], a[2] * b[2])
FracDiv(a, b) ==
    IF b[1] > 0 THEN Frac(a[1] * b[2], a[2] * b[1])
                ELSE Frac(-(a[1] * b[2]), a[2] * (-b[1]))
FracEq(a, b) == a[1] * b[2] = b[1] * a[2]

\* ------------------------------------------------------------ strings ----
DigitChar == <<"0", "1", "2", "3", "4", "5", "6", "7", "8", "9">>

RECURSIVE toString(_)
toString(n) ==
    IF n < 10 THEN <<DigitChar[n + 1]>>
    ELSE toString(n \div 10) \o <<DigitChar[(n % 10) + 1]>>

\* ------------------------------------------------------- findSolution ----
\* Faulty variant: ops holds the additive operators only.
OpSymbols_AdditiveOnly == <<"+", "-">>
\* Faulty variant: the multiplication is tried first.
OpSymbols_TimesFirst == <<"*", "+", "-", "/">>

OpSymbols == <<"+", "-", "*", "/">>

\* Faulty variant: the text repeats the left operand where the right one belongs.
Wrap_RepeatsLeft(a, sym, b) == <<"(">> \o a.expr \o <<sym>> \o a.expr \o <<")">>

\* Faulty variant: the text is not parenthesized.
Wrap_NoParens(a, sym, b) == a.expr \o <<sym>> \o b.expr

Wrap(a, sym, b) == <<"(">> \o a.expr \o <<sym>> \o b.expr \o <<")">>

\* ops[k].calc(a, b); Null when the division is refused.
Null == [val |-> <<0, 0>>, expr |-> <<>>]

\* Faulty variant: the division is not guarded.
Calc_Unguarded(sym, a, b) ==
    CASE sym = "+" -> [val |-> FracAdd(a.val, b.val), expr |-> Wrap(a, "+", b)]
      [] sym = "-" -> [val |-> FracSub(a.val, b.val), expr |-> Wrap(a, "-", b)]
      [] sym = "*" -> [val |-> FracMul(a.val, b.val), expr |-> Wrap(a, "*", b)]
      [] sym = "/" -> [val |-> FracDiv(a.val, b.val), expr |-> Wrap(a, "/", b)]

\* Faulty variant: the value of a subtraction is the sum.
Calc_MinusAdds(sym, a, b) ==
    CASE sym = "+" -> [val |-> FracAdd(a.val, b.val), expr |-> Wrap(a, "+", b)]
      [] sym = "-" -> [val |-> FracAdd(a.val, b.val), expr |-> Wrap(a, "-", b)]
      [] sym = "*" -> [val |-> FracMul(a.val, b.val), expr |-> Wrap(a, "*", b)]
      [] sym = "/" -> IF AbsLessThanInv(b.val, DivGuardInv) THEN Null
                      ELSE [val |-> FracDiv(a.val, b.val), expr |-> Wrap(a, "/", b)]

Calc(sym, a, b) ==
    CASE sym = "+" -> [val |-> FracAdd(a.val, b.val), expr |-> Wrap(a, "+", b)]
      [] sym = "-" -> [val |-> FracSub(a.val, b.val), expr |-> Wrap(a, "-", b)]
      [] sym = "*" -> [val |-> FracMul(a.val, b.val), expr |-> Wrap(a, "*", b)]
      [] sym = "/" -> IF AbsLessThanInv(b.val, DivGuardInv) THEN Null
                      ELSE [val |-> FracDiv(a.val, b.val), expr |-> Wrap(a, "/", b)]

\* Faulty variant: the mode is not consulted.
OpEnabled_Always(md, sym) == TRUE

\* Faulty variant: hard mode has division in the place of multiplication.
OpEnabled_HardSwapsTimes(md, sym) == IF md = "easy" THEN sym # "/" ELSE sym # "*"

OpEnabled(md, sym) == ~(md = "easy" /\ sym = "/")

\* Faulty variant: only the operand at i is taken out of the pool.
RECURSIVE Rest_KeepsJ(_, _, _, _)
Rest_KeepsJ(arr, i, j, k) ==
    IF k > Len(arr) THEN <<>>
    ELSE IF k = i THEN Rest_KeepsJ(arr, i, j, k + 1)
    ELSE <<arr[k]>> \o Rest_KeepsJ(arr, i, j, k + 1)

\* arr.filter((_, idx) => idx !== i && idx !== j)
RECURSIVE Rest(_, _, _, _)
Rest(arr, i, j, k) ==
    IF k > Len(arr) THEN <<>>
    ELSE IF k = i \/ k = j THEN Rest(arr, i, j, k + 1)
    ELSE <<arr[k]>> \o Rest(arr, i, j, k + 1)

\* Faulty variant: the tolerance is taken as 1 instead of 1e-6.
IsTarget_Loose(v) == AbsLessThanInv(FracSub(v, Frac(Target, 1)), 1)

IsTarget(v) == AbsLessThanInv(FracSub(v, Frac(Target, 1)), TargetTolInv)

RECURSIVE search(_, _), searchI(_, _, _), searchJ(_, _, _, _), searchOp(_, _, _, _, _)
RECURSIVE searchJ_Unordered(_, _, _, _)
\* for (const op of ops), from ops[o] on, for the pair (i, j)
searchOp(arr, md, i, j, o) ==
    IF o > Len(OpSymbols) THEN NoSolution
    ELSE IF ~OpEnabled(md, OpSymbols[o]) THEN searchOp(arr, md, i, j, o + 1)
    ELSE LET result == Calc(OpSymbols[o], arr[i], arr[j])
         IN  IF result = Null THEN searchOp(arr, md, i, j, o + 1)
             ELSE LET found == search(Rest(arr, i, j, 1) \o <<result>>, md)
                  IN  IF found # NoSolution THEN found
                      ELSE searchOp(arr, md, i, j, o + 1)

\* Faulty variant: only the pairs with i before j are tried.
searchJ_Unordered(arr, md, i, j) ==
    IF j > Len(arr) THEN NoSolution
    ELSE IF j <= i THEN searchJ_Unordered(arr, md, i, j + 1)
    ELSE LET found == searchOp(arr, md, i, j, 1)
         IN  IF found # NoSolution THEN found
             ELSE searchJ_Unordered(arr, md, i, j + 1)

\* for (let j ...), from j on, for the position i
searchJ(arr, md, i, j) ==
    IF j > Len(arr) THEN NoSolution
    ELSE IF i = j THEN searchJ(arr, md, i, j + 1)
    ELSE LET found == searchOp(arr, md, i, j, 1)
         IN  IF found # NoSolution THEN found ELSE searchJ(arr, md, i, j + 1)

\* Faulty variant: only the first position of the pool is taken as i.
searchI_FirstOnly(arr, md, i) ==
    IF i > 1 THEN NoSolution ELSE searchJ(arr, md, i, 1)

\* for (let i ...), from i on
searchI(arr, md, i) ==
    IF i > Len(arr) THEN NoSolution
    ELSE LET found == searchJ(arr, md, i, 1)
         IN  IF found # NoSolution THEN found ELSE searchI(arr, md, i + 1)

\* Pool positions are 1-based here (0-based in the code).
search(arr, md) ==
    IF Len(arr) = 1
    THEN IF IsTarget(arr[1].val) THEN arr[1].expr ELSE NoSolution
    ELSE searchI(arr, md, 1)

Seeds(nums) == [k \in 1..Len(nums) |-> [val |-> Frac(nums[k], 1), expr |-> toString(nums[k])]]

findSolution(nums, md) == search(Seeds(nums), md)

\* ------------------------------------- reading an expression text ------
\* The value of a fully parenthesized expression text
\*     E ::= number | "(" E op E ")"
\* under exact arithmetic, with its number leaves (left to right), its
\* operators, and whether one of its divisions has a divisor equal to 0.
\* ok is FALSE when the text is not of this form.
DigitValue(c) == CHOOSE d \in 0..9 : DigitChar[d + 1] = c
IsDigit(c) == \E d \in 0..9 : DigitChar[d + 1] = c
IsOpSymbol(c) == \E o \in 1..Len(OpSymbols) : OpSymbols[o] = c

NoParse == [ok |-> FALSE, val |-> <<0, 1>>, leaves |-> <<>>, opsUsed |-> <<>>,
            zeroDiv |-> FALSE, next |-> 0]

ApplyOp(sym, x, y) ==
    CASE sym = "+" -> FracAdd(x, y)
      [] sym = "-" -> FracSub(x, y)
      [] sym = "*" -> FracMul(x, y)
      [] sym = "/" -> IF y[1] = 0 THEN <<0, 1>> ELSE FracDiv(x, y)

RECURSIVE ParseNumber(_, _, _)
ParseNumber(s, pos, acc) ==
    IF pos <= Len(s) /\ IsDigit(s[pos])
    THEN ParseNumber(s, pos + 1, 10 * acc + DigitValue(s[pos]))
    ELSE [ok |-> TRUE, val |-> Frac(acc, 1), leaves |-> <<acc>>, opsUsed |-> <<>>,
          zeroDiv |-> FALSE, next |-> pos]

RECURSIVE ParseExpr(_, _)
ParseExpr(s, pos) ==
    IF pos > Len(s) THEN NoParse
    ELSE IF IsDigit(s[pos]) THEN ParseNumber(s, pos, 0)
    ELSE IF s[pos] # "(" THEN NoParse
    ELSE LET l == ParseExpr(s, pos + 1)
         IN  IF ~l.ok \/ l.next > Len(s) THEN NoParse
             ELSE IF ~IsOpSymbol(s[l.next]) THEN NoParse
             ELSE LET sym == s[l.next]
                      r == ParseExpr(s, l.next + 1)
                  IN  IF ~r.ok \/ r.next > Len(s) THEN NoParse
                      ELSE IF s[r.next] # ")" THEN NoParse
                      ELSE [ok |-> TRUE,
                            val |-> ApplyOp(sym, l.val, r.val),
                            leaves |-> l.leaves \o r.leaves,
                            opsUsed |-> l.opsUsed \o <<sym>> \o r.opsUsed,
                            zeroDiv |-> l.zeroDiv \/ r.zeroDiv
                                        \/ (sym = "/" /\ r.val[1] = 0),
                            next |-> r.next + 1]

ReadExpr(s) ==
    LET r == ParseExpr(s, 1)
    IN  IF r.ok /\ r.next = Len(s) + 1 THEN r ELSE NoParse

\* The text is a fully parenthesized expression without a division by 0
\* whose exact value is 24.
EvaluatesTo24(s) ==
    LET r == ReadExpr(s)
    IN  r.ok /\ ~r.zeroDiv /\ FracEq(r.val, Frac(Target, 1))

\* Number of positions of sequence q holding x.
Count(q, x) == Cardinality({k \in 1..Len(q) : q[k] = x})
SameMultiset(p, q) ==
    /\ Len(p) = Len(q)
    /\ \A k \in 1..Len(p) : Count(p, p[k]) = Count(q, p[k])

\* ------------------------- what can be made of four numbers, exactly -----
\* The values of all expressions that use the numbers at the positions S of
\* ns exactly once each, with the operators allowed, a division by 0 having
\* no value.  Every way to split S into a left and a right operand is taken.
AllowedOps(md) == {OpSymbols[o] : o \in {o \in 1..Len(OpSymbols) : OpEnabled(md, OpSymbols[o])}}

RECURSIVE Gcd(_, _)
Gcd(a, b) == IF b = 0 THEN a ELSE Gcd(b, a % b)
Reduce(v) ==
    LET g == Gcd(Abs(v[1]), v[2])
    IN  <<v[1] \div g, v[2] \div g>>

ValuesOf(X, Y, md) ==
    {Reduce(ApplyOp(sym, x, y)) :
        <<sym, x, y>> \in {t \in AllowedOps(md) \X X \X Y : ~(t[1] = "/" /\ t[3][1] = 0)}}

RECURSIVE ExprValues(_, _, _)
ExprValues(ns, S, md) ==
    IF Cardinality(S) = 1 THEN {Frac(ns[CHOOSE k \in S : TRUE], 1)}
    ELSE UNION {ValuesOf(ExprValues(ns, A, md), ExprValues(ns, S \ A, md), md) :
                    A \in (SUBSET S) \ {{}, S}}

CanMake24(ns, md) == Frac(Target, 1) \in ExprValues(ns, 1..Len(ns), md)

\* ------------------------------------------------ evaluateExpression -----
\* The value of new Function('return (' + text + ')')() for a text of
\* digits and + - * / ( ): a JavaScript number, or a throw (a SyntaxError of
\* the text, a TypeError of a call such as 4(5)).  A number is finite (a
\* fraction; neg is the sign, also of a zero), infinite (neg is the sign) or
\* NaN.  Texts that hold the tokens ++ or -- throw.  Two adjacent "*" are
\* the exponent operator.  "//" opens a comment that runs to the end of the
\* line and so takes the closing ");" with it; "/*" opens a comment that
\* needs its "*/"; a "/" where an operand is expected opens a regular
\* expression literal that needs its closing "/".  What is left out (the
\* text around a closed comment, the value of a regular expression, a power
\* with an exponent that is no integer or with a result beyond PowCap) is
\* reported with kind "unmodelled".
JsFin(v, neg) == [kind |-> "fin", frac |-> v, neg |-> IF v[1] = 0 THEN neg ELSE v[1] < 0]
JsInf(neg) == [kind |-> "inf", frac |-> <<0, 1>>, neg |-> neg]
JsNaN == [kind |-> "nan", frac |-> <<0, 1>>, neg |-> FALSE]
JsIsZero(x) == x.kind = "fin" /\ x.frac[1] = 0

Throws == [kind |-> "throws", frac |-> <<0, 1>>, neg |-> FALSE]
Unmodelled == [kind |-> "unmodelled", frac |-> <<0, 1>>, neg |-> FALSE]

JsNegate(x) ==
    IF x.kind = "nan" THEN JsNaN
    ELSE IF x.kind = "inf" THEN JsInf(~x.neg)
    ELSE JsFin(<<-x.frac[1], x.frac[2]>>, ~x.neg)

JsNeg(x) == IF x.kind = "unmodelled" THEN Unmodelled ELSE JsNegate(x)

JsAdd(x, y) ==
    IF x.kind = "nan" \/ y.kind = "nan" THEN JsNaN
    ELSE IF x.kind = "inf" /\ y.kind = "inf" THEN (IF x.neg = y.neg THEN x ELSE JsNaN)
    ELSE IF x.kind = "inf" THEN x
    ELSE IF y.kind = "inf" THEN y
    ELSE JsFin(FracAdd(x.frac, y.frac), JsIsZero(x) /\ JsIsZero(y) /\ x.neg /\ y.neg)

JsSub(x, y) == JsAdd(x, JsNegate(y))

JsMul(x, y) ==
    IF x.kind = "nan" \/ y.kind = "nan" THEN JsNaN
    ELSE IF x.kind = "inf" \/ y.kind = "inf"
    THEN (IF JsIsZero(x) \/ JsIsZero(y) THEN JsNaN ELSE JsInf(x.neg # y.neg))
    ELSE JsFin(FracMul(x.frac, y.frac), x.neg # y.neg)

JsDiv(x, y) ==
    IF x.kind = "nan" \/ y.kind = "nan" THEN JsNaN
    ELSE IF x.kind = "inf" THEN (IF y.kind = "inf" THEN JsNaN ELSE JsInf(x.neg # y.neg))
    ELSE IF y.kind = "inf" THEN JsFin(<<0, 1>>, x.neg # y.neg)
    ELSE IF JsIsZero(y) THEN (IF JsIsZero(x) THEN JsNaN ELSE JsInf(x.neg # y.neg))
    ELSE JsFin(FracDiv(x.frac, y.frac), x.neg # y.neg)

\* The largest power the model forms; a larger one is "unmodelled".
PowCap == 16777216

RECURSIVE PowInt(_, _)
PowInt(b, n) == IF n = 0 THEN 1 ELSE b * PowInt(b, n - 1)

RECURSIVE PowFits(_, _)
PowFits(b, n) ==
    n = 0 \/ (PowFits(b, n - 1) /\ Abs(PowInt(b, n - 1)) <= PowCap \div Abs(b))

\* x ** y: anything ** 0 is 1; a power of a fraction by an integer is the
\* power of its parts, turned over when the exponent is negative; a zero to
\* a negative power is infinite.
JsPow(x, y) ==
    IF JsIsZero(y) THEN JsFin(Frac(1, 1), FALSE)
    ELSE IF x.kind = "nan" \/ y.kind = "nan" THEN JsNaN
    ELSE IF x.kind # "fin" \/ y.kind # "fin" THEN Unmodelled
    ELSE IF y.frac[1] % y.frac[2] # 0 THEN Unmodelled
    ELSE LET n == Abs(y.frac[1] \div y.frac[2])
             up == y.frac[1] > 0
             odd == n % 2 = 1
             p == x.frac[1]
             q == x.frac[2]
         IN  IF p = 0
             THEN (IF up THEN JsFin(Frac(0, 1), x.neg /\ odd) ELSE JsInf(x.neg /\ odd))
             ELSE IF ~(PowFits(p, n) /\ PowFits(q, n)) THEN Unmodelled
             ELSE IF up THEN JsFin(Frac(PowInt(p, n), PowInt(q, n)), FALSE)
             ELSE IF PowInt(p, n) > 0
             THEN JsFin(Frac(PowInt(q, n), PowInt(p, n)), FALSE)
             ELSE JsFin(Frac(-PowInt(q, n), -PowInt(p, n)), FALSE)

JsApply(sym, x, y) ==
    IF x.kind = "unmodelled" \/ y.kind = "unmodelled" THEN Unmodelled
    ELSE CASE sym = "+" -> JsAdd(x, y)
           [] sym = "-" -> JsSub(x, y)
           [] sym = "*" -> JsMul(x, y)
           [] sym = "/" -> JsDiv(x, y)
           [] sym = "**" -> JsPow(x, y)

NoJsParse == [ok |-> FALSE, val |-> JsNaN, next |-> 0]

At(s, pos) == IF pos >= 1 /\ pos <= Len(s) THEN s[pos] ELSE ""

RECURSIVE JsNumber(_, _, _)
JsNumber(s, pos, acc) ==
    IF IsDigit(At(s, pos)) THEN JsNumber(s, pos + 1, 10 * acc + DigitValue(s[pos]))
    ELSE [ok |-> TRUE, val |-> JsFin(Frac(acc, 1), FALSE), next |-> pos]

RECURSIVE JsAdditive(_, _), JsAdditiveRest(_, _), JsMultiplicative(_, _),
          JsMultiplicativeRest(_, _), JsExponentiation(_, _), JsUnary(_, _),
          JsPrimary(_, _)
\* number | ( Expression )
JsPrimary(s, pos) ==
    IF IsDigit(At(s, pos)) THEN JsNumber(s, pos, 0)
    ELSE IF At(s, pos) = "("
    THEN LET e == JsAdditive(s, pos + 1)
         IN  IF e.ok /\ At(s, e.next) = ")"
             THEN [ok |-> TRUE, val |-> e.val, next |-> e.next + 1]
             ELSE NoJsParse
    ELSE NoJsParse

\* + Unary | - Unary | Primary; ++ and -- are tokens of their own, and no
\* operand here can be assigned to.
JsUnary(s, pos) ==
    IF At(s, pos) \in {"+", "-"}
    THEN IF At(s, pos + 1) = At(s, pos) THEN NoJsParse
         ELSE LET u == JsUnary(s, pos + 1)
              IN  IF ~u.ok THEN NoJsParse
                  ELSE [ok |-> TRUE,
                        val |-> IF s[pos] = "-" THEN JsNeg(u.val) ELSE u.val,
                        next |-> u.next]
    ELSE JsPrimary(s, pos)

HasPower(s, pos) == At(s, pos) = "*" /\ At(s, pos + 1) = "*"

\* Unary | Primary ** Exponentiation: ** associates right, its right side
\* may carry a sign, its left side may not (-2 ** 2 is a SyntaxError).
JsExponentiation(s, pos) ==
    IF At(s, pos) \in {"+", "-"}
    THEN LET u == JsUnary(s, pos)
         IN  IF u.ok /\ HasPower(s, u.next) THEN NoJsParse ELSE u
    ELSE LET b == JsPrimary(s, pos)
         IN  IF b.ok /\ HasPower(s, b.next)
             THEN LET r == JsExponentiation(s, b.next + 2)
                  IN  IF ~r.ok THEN NoJsParse
                      ELSE [ok |-> TRUE, val |-> JsApply("**", b.val, r.val),
                            next |-> r.next]
             ELSE b

\* left is a parsed Multiplicative operand sequence; * and / associate left
JsMultiplicativeRest(s, left) ==
    IF At(s, left.next) \in {"*", "/"}
    THEN LET r == JsExponentiation(s, left.next + 1)
         IN  IF ~r.ok THEN NoJsParse
             ELSE JsMultiplicativeRest(s, [ok |-> TRUE,
                        val |-> JsApply(s[left.next], left.val, r.val),
                        next |-> r.next])
    ELSE left

JsMultiplicative(s, pos) ==
    LET l == JsExponentiation(s, pos)
    IN  IF ~l.ok THEN NoJsParse ELSE JsMultiplicativeRest(s, l)

JsAdditiveRest(s, left) ==
    IF At(s, left.next) \in {"+", "-"}
    THEN IF At(s, left.next + 1) = At(s, left.next) THEN NoJsParse
         ELSE LET r == JsMultiplicative(s, left.next + 1)
              IN  IF ~r.ok THEN NoJsParse
                  ELSE JsAdditiveRest(s, [ok |-> TRUE,
                            val |-> JsApply(s[left.next], left.val, r.val),
                            next |-> r.next])
    ELSE left

JsAdditive(s, pos) ==
    LET l == JsMultiplicative(s, pos)
    IN  IF ~l.ok THEN NoJsParse ELSE JsAdditiveRest(s, l)

\* The "/" of the text from pos on, read left to right as the scanner reads
\* them: "plain" when each is a division sign, "throws" when the first one
\* that is not opens a comment or a regular expression that the line does
\* not close, "unmodelled" when it opens one that the line closes.
RECURSIVE Slashes(_, _)
Slashes(s, pos) ==
    IF pos > Len(s) THEN "plain"
    ELSE IF s[pos] # "/" THEN Slashes(s, pos + 1)
    ELSE IF At(s, pos + 1) = "/" THEN "throws"
    ELSE IF At(s, pos + 1) = "*"
    THEN (IF \E j \in (pos + 2)..(Len(s) - 1) : s[j] = "*" /\ s[j + 1] = "/"
          THEN "unmodelled" ELSE "throws")
    ELSE IF pos = 1 \/ s[pos - 1] \in {"+", "-", "*", "/", "("}
    THEN (IF \E j \in (pos + 1)..Len(s) : s[j] = "/" THEN "unmodelled" ELSE "throws")
    ELSE Slashes(s, pos + 1)

evaluateExpression(s) ==
    IF Slashes(s, 1) = "throws" THEN Throws
    ELSE IF Slashes(s, 1) = "unmodelled" THEN Unmodelled
    ELSE LET e == JsAdditive(s, 1)
         IN  IF e.ok /\ e.next = Len(s) + 1 THEN e.val ELSE Throws

\* -------------------------------------------------------------- state ----
VARIABLES
    sNums,      \* findSolution call: the argument nums
    sMode,      \*                    the argument mode
    sResult,    \*                    the value returned (NoSolution: null)
    sPc,        \* "call" before the call, "run" during it, "ret" after it
    stack,      \* the calls of search in progress, the innermost last
    retSet,     \* a call of search has just returned to its caller
    retVal,     \* what it returned
    lastCalc,   \* the latest op.calc(a, b) of the search and its outcome
    gMode,      \* generateSolvablePuzzle call: the argument mode
    gPc,        \* "sample", "test" (the sample is drawn and searched), "done"
    gNums,      \* the sample of the current iteration
    gSolution,  \* findSolution(nums, mode) of the current iteration
    gPuzzle,    \* the Puzzle returned
    mode,       \* Math24Game: useState mode
    puzzle,     \*             useState puzzle
    tokens,     \*             useState tokens
    message,    \*             useState message
    tone,       \*             useState tone
    hintLevel,  \*             useState hintLevel
    aiHint,     \*             useState aiHint
    aiStatus,   \*             useState aiStatus
    aiError,    \*             useState aiError
    solutionOpen,   \* solutionRef.current.open, the <details> of the solution
    pending,    \* the hint requests sent and not yet answered (a count)
    puzzleMode, \* the mode generateSolvablePuzzle was called with for puzzle
    tokenFloor, \* the shortest expression the player adds a token to in this run
    tokenLimit, \* the longest expression the player builds in this run
    pendingLimit,   \* the most hint requests in flight in this run
    stale       \* which requests and answers belong to an earlier puzzle,
                \* in a run that follows them (stale.on)

searchVars == <<sNums, sMode, sResult, sPc>>
stepVars == <<stack, retSet, retVal, lastCalc>>
genVars == <<gMode, gPc, gNums, gSolution, gPuzzle>>
uiVars == <<mode, puzzle, tokens, message, tone, hintLevel, aiHint, aiStatus,
            aiError, solutionOpen, pending, puzzleMode, tokenFloor,
            tokenLimit, pendingLimit, stale>>
vars == <<searchVars, stepVars, genVars, uiVars>>

NoCalc == [sym |-> "", a |-> Null, b |-> Null, refused |-> FALSE, tried |-> <<>>]
\* What an operation of one part leaves alone: the state of the other parts.
SearchOnly == UNCHANGED <<stepVars, genVars, uiVars>>
StepOnly == UNCHANGED <<genVars, uiVars>>
GenOnly == UNCHANGED <<searchVars, stepVars, uiVars>>
UiOnly == UNCHANGED <<searchVars, stepVars, genVars, tokenFloor, tokenLimit, pendingLimit>>

\* No request in flight was sent for an earlier puzzle, and neither the hint
\* nor the error displayed answers one. A run follows the requests of earlier
\* puzzles or it does not (on), from its start to its end.
NoneStale == [on |-> FALSE, pending |-> 0, hint |-> FALSE, error |-> FALSE]
NoPuzzle == [nums |-> <<>>, hints |-> <<>>, solution |-> NoSolution]
SearchIdle ==
    /\ sNums = <<>>
    /\ sMode = "easy"
    /\ sResult = NoSolution
    /\ sPc = "idle"
GenIdle ==
    /\ gMode = "easy"
    /\ gPc = "idle"
    /\ gNums = <<>>
    /\ gSolution = NoSolution
    /\ gPuzzle = NoPuzzle
UiIdle ==
    /\ mode = "easy"
    /\ puzzle = NoPuzzle
    /\ tokens = <<>>
    /\ message = ""
    /\ tone = "neutral"
    /\ hintLevel = 0
    /\ aiHint = ""
    /\ aiStatus = "idle"
    /\ aiError = ""
    /\ solutionOpen = FALSE
    /\ pending = 0
    /\ stale = NoneStale
    /\ puzzleMode = "easy"
    /\ tokenFloor = 0
    /\ tokenLimit = 0
    /\ pendingLimit = 0
StepIdle ==
    /\ stack = <<>>
    /\ retSet = FALSE
    /\ retVal = NoSolution
    /\ lastCalc = NoCalc

\* ------------------------------------------ findSolution as a function ---
\* Every 4-tuple over 1..MaxNum, and the vectors the specification names.
TestVectors == {<<1, 2, 3, 4>>, <<1, 1, 1, 1>>, <<3, 8, 3, 8>>}
SearchInputs == [1..PuzzleSize -> 1..MaxNum] \cup TestVectors

SearchInit ==
    /\ sNums \in SearchInputs
    /\ sMode \in Modes
    /\ sResult = NoSolution
    /\ sPc = "call"
    /\ StepIdle
    /\ GenIdle
    /\ UiIdle

CallFindSolution ==
    /\ sPc = "call"
    /\ sResult' = findSolution(sNums, sMode)
    /\ sPc' = "ret"
    /\ UNCHANGED <<sNums, sMode>>
    /\ SearchOnly

SearchNext == CallFindSolution

SearchSpec == SearchInit /\ [][SearchNext]_vars

Returned == sPc = "ret"
Found == Returned /\ sResult # NoSolution

\* C1: findSolution returns a string exactly when some expression over the
\* four numbers, each used once, with the operators of the mode, is worth
\* exactly 24.
C1_FoundIffSolvable ==
    Returned => ((sResult # NoSolution) <=> CanMake24(sNums, sMode))

\* A solution is found in a case that needs the division.
C1_Witness ==
    /\ Returned /\ sMode = "hard" /\ sResult # NoSolution
    /\ ~CanMake24(sNums, "easy")

\* C2: a returned string evaluates, under standard arithmetic, to 24.
C2_SolutionIs24 == Found => EvaluatesTo24(sResult)

\* The solution of 3, 8, 3, 8, whose intermediate values are no integers.
C2_Witness == Found /\ sNums = <<3, 8, 3, 8>> /\ EvaluatesTo24(sResult)

\* C3: a returned string is a fully parenthesized binary expression whose
\* number leaves are the four inputs, each once, with three operators.
C3_UsesEachInputOnce ==
    Found => LET r == ReadExpr(sResult)
             IN  /\ r.ok
                 /\ SameMultiset(r.leaves, sNums)
                 /\ Len(r.opsUsed) = PuzzleSize - 1

\* A solution for an input that holds the same number more than once.
C3_Witness ==
    /\ Found /\ sNums[1] = sNums[2] /\ sNums[3] = sNums[4]
    /\ SameMultiset(ReadExpr(sResult).leaves, sNums)

\* C4: in easy mode a returned string holds no "/".
C4_EasyHasNoDivision ==
    (Found /\ sMode = "easy") => \A k \in 1..Len(sResult) : sResult[k] # "/"

\* An easy solution for an input whose hard solution divides.
C4_Witness ==
    /\ Found /\ sMode = "easy"
    /\ \E k \in 1..Len(findSolution(sNums, "hard")) : findSolution(sNums, "hard")[k] = "/"

\* ------------------------------------------- search, one step at a time --
\* A call of search is a frame: its pool arr, the loop positions i, j
\* (1-based) and o (the position in ops of the operator to try next), and
\* tried, the operators already applied to the pair (i, j).
Frame(arr) == [arr |-> arr, i |-> 1, j |-> 1, o |-> 1, tried |-> <<>>]

Top == stack[Len(stack)]
SetTop(f) == [stack EXCEPT ![Len(stack)] = f]
Pop == SubSeq(stack, 1, Len(stack) - 1)

\* The loop position after the pair (i, j) is done with.
NextPair(f) ==
    IF f.j < Len(f.arr)
    THEN [f EXCEPT !.j = f.j + 1, !.o = 1, !.tried = <<>>]
    ELSE [f EXCEPT !.i = f.i + 1, !.j = 1, !.o = 1, !.tried = <<>>]

\* The loop position after the operator o is done with.
Advance(f) ==
    IF f.o < Len(OpSymbols) THEN [f EXCEPT !.o = f.o + 1] ELSE NextPair(f)

StepInputs == TestVectors

StepInit ==
    /\ sNums \in StepInputs
    /\ sMode \in Modes
    /\ sResult = NoSolution
    /\ sPc = "run"
    /\ stack = <<Frame(Seeds(sNums))>>
    /\ retSet = FALSE
    /\ retVal = NoSolution
    /\ lastCalc = NoCalc
    /\ GenIdle
    /\ UiIdle

Active == sPc = "run" /\ ~retSet /\ stack # <<>>
InLoops == Active /\ Len(Top.arr) > 1 /\ Top.i <= Len(Top.arr)
AtPair == InLoops /\ Top.i # Top.j

\* The innermost call returns v: to its caller, or to the caller of
\* findSolution.
Return(v) ==
    IF Len(stack) = 1
    THEN /\ stack' = <<>>
         /\ sResult' = v
         /\ sPc' = "ret"
         /\ retSet' = FALSE
         /\ retVal' = NoSolution
    ELSE /\ stack' = Pop
         /\ retSet' = TRUE
         /\ retVal' = v
         /\ UNCHANGED <<sResult, sPc>>

\* Faulty variant: the one operand left is returned whatever it is worth.
BaseCase_AnyValue ==
    /\ Active
    /\ Len(Top.arr) = 1
    /\ Return(Top.arr[1].expr)
    /\ UNCHANGED <<sNums, sMode, lastCalc>>
    /\ StepOnly

\* if (arr.length === 1) return ...
BaseCase ==
    /\ Active
    /\ Len(Top.arr) = 1
    /\ Return(IF IsTarget(Top.arr[1].val) THEN Top.arr[1].expr ELSE NoSolution)
    /\ UNCHANGED <<sNums, sMode, lastCalc>>
    /\ StepOnly

\* if (i === j) continue
SkipSelfPair ==
    /\ InLoops
    /\ Top.i = Top.j
    /\ stack' = SetTop(NextPair(Top))
    /\ UNCHANGED <<searchVars, retSet, retVal, lastCalc>>
    /\ StepOnly

\* if (mode === 'easy' && op.symbol === '/') continue
SkipDisabledOp ==
    /\ AtPair
    /\ ~OpEnabled(sMode, OpSymbols[Top.o])
    /\ stack' = SetTop(Advance(Top))
    /\ UNCHANGED <<searchVars, retSet, retVal, lastCalc>>
    /\ StepOnly

\* const result = op.calc(arr[i], arr[j]); if (!result) continue
RefuseCalc ==
    /\ AtPair
    /\ OpEnabled(sMode, OpSymbols[Top.o])
    /\ Calc(OpSymbols[Top.o], Top.arr[Top.i], Top.arr[Top.j]) = Null
    /\ lastCalc' = [sym |-> OpSymbols[Top.o], a |-> Top.arr[Top.i], b |-> Top.arr[Top.j],
                    refused |-> TRUE, tried |-> Top.tried]
    /\ stack' = SetTop(Advance(Top))
    /\ UNCHANGED <<searchVars, retSet, retVal>>
    /\ StepOnly

\* const result = op.calc(arr[i], arr[j]); search([...rest, result])
Combine ==
    /\ AtPair
    /\ OpEnabled(sMode, OpSymbols[Top.o])
    /\ LET result == Calc(OpSymbols[Top.o], Top.arr[Top.i], Top.arr[Top.j])
       IN  /\ result # Null
           /\ lastCalc' = [sym |-> OpSymbols[Top.o], a |-> Top.arr[Top.i],
                           b |-> Top.arr[Top.j], refused |-> FALSE, tried |-> Top.tried]
           /\ stack' = SetTop([Top EXCEPT !.tried = Top.tried \o <<OpSymbols[Top.o]>>])
                          \o <<Frame(Rest(Top.arr, Top.i, Top.j, 1) \o <<result>>)>>
    /\ UNCHANGED <<searchVars, retSet, retVal>>
    /\ StepOnly

\* the loops are over: return null
Exhausted ==
    /\ Active
    /\ Len(Top.arr) > 1
    /\ Top.i > Len(Top.arr)
    /\ Return(NoSolution)
    /\ UNCHANGED <<sNums, sMode, lastCalc>>
    /\ StepOnly

\* if (found) return found
ReturnFound ==
    /\ sPc = "run"
    /\ retSet
    /\ retVal # NoSolution
    /\ Return(retVal)
    /\ UNCHANGED <<sNums, sMode, lastCalc>>
    /\ StepOnly

\* found is null: on to the next operator
ContinueLoop ==
    /\ sPc = "run"
    /\ retSet
    /\ retVal = NoSolution
    /\ retSet' = FALSE
    /\ stack' = SetTop(Advance(Top))
    /\ UNCHANGED <<searchVars, retVal, lastCalc>>
    /\ StepOnly

StepNext ==
    \/ BaseCase
    \/ SkipSelfPair
    \/ SkipDisabledOp
    \/ RefuseCalc
    \/ Combine
    \/ Exhausted
    \/ ReturnFound
    \/ ContinueLoop

StepSpec == StepInit /\ [][StepNext]_vars

\* The search is one sequential computation: a step that can be taken is
\* taken.
StepFairSpec == StepSpec /\ WF_vars(StepNext)

\* The stepwise search returns what the function returns.
StepAgrees == sPc = "ret" => sResult = findSolution(sNums, sMode)

IsZero(v) == AbsLessThanInv(v, DivGuardInv)

\* C5: the search never divides by a value that is 0 (below 1e-9): calc
\* refuses exactly the divisions by such a value, after the other operators
\* were applied to the same pair, and goes on; a text the search returns
\* holds no division by 0, and nothing is returned for an input of which no
\* expression without a division by 0 is worth 24.
C5_DivisionGuard ==
    /\ (lastCalc.sym = "/" /\ ~lastCalc.refused) => ~IsZero(lastCalc.b.val)
    /\ lastCalc.refused =>
          /\ lastCalc.sym = "/"
          /\ IsZero(lastCalc.b.val)
          /\ lastCalc.tried = <<"+", "-", "*">>
          /\ sPc = "run" => stack # <<>>
    /\ (sPc = "ret" /\ sResult # NoSolution) => ~ReadExpr(sResult).zeroDiv
    /\ (sPc = "ret" /\ ~CanMake24(sNums, sMode)) => sResult = NoSolution

\* A division by 0 has just been refused, in hard mode, and the search
\* goes on in the same call.
C5_Witness ==
    /\ sMode = "hard" /\ sPc = "run"
    /\ lastCalc.refused /\ lastCalc.b.val[1] = 0
    /\ Active /\ Top.arr = <<lastCalc.a, lastCalc.b>>

\* ---------------------------------------------- generateSolvablePuzzle --
\* What the random source draws for one puzzle.
DrawDigits == {d \in MinDigit..MaxDigit : DrawLo <= d /\ d <= DrawHi}
DrawTuples == [1..PuzzleSize -> DrawDigits]

\* findSolution on the tuples of DrawTuples, computed once: a sequence over
\* the positions TableIndex(t, md).
DigitRank(d) == d - DrawLo
DrawWidth == DrawHi - DrawLo + 1
RECURSIVE TupleRank(_, _)
TupleRank(t, k) == IF k = 0 THEN 0 ELSE TupleRank(t, k - 1) * DrawWidth + DigitRank(t[k])
TupleCount == Cardinality(DrawTuples)
TableIndex(t, md) == (IF md = "easy" THEN 0 ELSE TupleCount) + TupleRank(t, Len(t)) + 1
SolutionTable ==
    [n \in 1..(2 * TupleCount) |->
        LET md == IF n <= TupleCount THEN "easy" ELSE "hard"
            t == CHOOSE t \in DrawTuples : TableIndex(t, md) = n
        IN  findSolution(t, md)] \o <<>>
Solve(t, md) == SolutionTable[TableIndex(t, md)]

\* [...arr].sort(() => Math.random() - 0.5): the numbers of arr in an order
\* the random comparisons decide.
Range(q) == {q[k] : k \in 1..Len(q)}
\* Faulty variant: each place is filled with a number of arr drawn afresh.
shuffle_WithReplacement(arr) == [1..Len(arr) -> Range(arr)]

shuffle(arr) == {[k \in 1..Len(arr) |-> arr[pi[k]]] : pi \in Permutations(1..Len(arr))}

GenInit ==
    /\ gMode \in Modes
    /\ gPc = "sample"
    /\ gNums = <<>>
    /\ gSolution = NoSolution
    /\ gPuzzle = NoPuzzle
    /\ SearchIdle
    /\ StepIdle
    /\ UiIdle

\* Faulty variant: the search is called without the mode (its default, hard).
Sample_IgnoresMode(t) ==
    /\ gPc = "sample"
    /\ gNums' = t
    /\ gSolution' = Solve(t, "hard")
    /\ gPc' = "test"
    /\ UNCHANGED <<gMode, gPuzzle>>
    /\ GenOnly

\* const nums = Array.from(...); const solution = findSolution(nums, mode)
Sample(t) ==
    /\ gPc = "sample"
    /\ gNums' = t
    /\ gSolution' = Solve(t, gMode)
    /\ gPc' = "test"
    /\ UNCHANGED <<gMode, gPuzzle>>
    /\ GenOnly

\* if (solution) is false: the next iteration of while (true)
Resample ==
    /\ gPc = "test"
    /\ gSolution = NoSolution
    /\ gPc' = "sample"
    /\ gNums' = <<>>
    /\ UNCHANGED <<gMode, gSolution, gPuzzle>>
    /\ GenOnly

\* Faulty variant: the test of the solution is inverted.
ReturnPuzzle_Inverted ==
    /\ gPc = "test"
    /\ gSolution = NoSolution
    /\ \E p \in shuffle(gNums) :
          gPuzzle' = [nums |-> p, hints |-> <<>>, solution |-> gSolution]
    /\ gPc' = "done"
    /\ UNCHANGED <<gMode, gNums, gSolution>>
    /\ GenOnly

\* if (solution) return { nums: shuffle(nums), hints: [], solution }
ReturnPuzzle ==
    /\ gPc = "test"
    /\ gSolution # NoSolution
    /\ \E p \in shuffle(gNums) :
          gPuzzle' = [nums |-> p, hints |-> <<>>, solution |-> gSolution]
    /\ gPc' = "done"
    /\ UNCHANGED <<gMode, gNums, gSolution>>
    /\ GenOnly

GenNext ==
    \/ \E t \in DrawTuples : Sample(t)
    \/ Resample
    \/ ReturnPuzzle

GenSpec == GenInit /\ [][GenNext]_vars

\* The random source is fair: a tuple that can be drawn again and again is
\* drawn; the loop itself does not stop.
GenFairness ==
    /\ \A t \in DrawTuples : SF_vars(Sample(t))
    /\ WF_vars(Resample)
    /\ WF_vars(ReturnPuzzle)

GenFairSpec == GenSpec /\ GenFairness

GenDone == gPc = "done"

\* C6: for a Puzzle the generator returns, findSolution on puzzle.nums, in
\* the order displayed, with the same mode, finds a solution, and
\* puzzle.solution evaluates to 24.
C6_ReturnedPuzzleSolvable ==
    GenDone => /\ findSolution(gPuzzle.nums, gMode) # NoSolution
               /\ EvaluatesTo24(gPuzzle.solution)

\* A puzzle is returned whose numbers are displayed in another order than
\* they were drawn and searched in.
C6_Witness ==
    /\ GenDone /\ gPuzzle.nums # gNums
    /\ findSolution(gPuzzle.nums, gMode) # gPuzzle.solution

\* C8: under a fair random source the generator returns, in both modes, and
\* it never returns for a sample for which the search found no solution.
C8_GeneratorReturns ==
    /\ <>GenDone
    /\ [](GenDone => (gSolution # NoSolution /\ gPuzzle.solution = gSolution
                      /\ gSolution = findSolution(gNums, gMode)))

\* The generator has returned in easy mode: samples without a solution were
\* possible on the way.
C8_Witness ==
    /\ GenDone /\ gMode = "easy"
    /\ \E t \in DrawTuples : Solve(t, "easy") = NoSolution

\* C9: a returned Puzzle has four numbers, each an integer in 1..9, and they
\* are the sampled 4-tuple in some order.
C9_NumsArePermutation ==
    GenDone => /\ Len(gPuzzle.nums) = PuzzleSize
               /\ \A k \in 1..Len(gPuzzle.nums) : gPuzzle.nums[k] \in MinDigit..MaxDigit
               /\ SameMultiset(gPuzzle.nums, gNums)

\* A puzzle is returned whose sample holds a number twice and whose order
\* differs from the sample's.
C9_Witness ==
    /\ GenDone
    /\ gPuzzle.nums # gNums
    /\ Cardinality(Range(gNums)) < PuzzleSize

\* ---------------------------------------------------------- Math24Game --
\* What a call generateSolvablePuzzle(md) can return, the loop of GenSpec
\* run to its end: a solved sample in any order shuffle can give.
Puzzles(md) ==
    UNION {{[nums |-> p, hints |-> <<>>, solution |-> Solve(t, md)] : p \in shuffle(t)} :
            t \in {d \in DrawTuples : Solve(d, md) # NoSolution}}
EasyPuzzles == Puzzles("easy")
HardPuzzles == Puzzles("hard")

\* Faulty variant: a sample is accepted whatever the search says.
generateSolvablePuzzle_Unchecked(md) ==
    UNION {{[nums |-> p, hints |-> <<>>, solution |-> Solve(t, md)] : p \in shuffle(t)} :
            t \in DrawTuples}

\* (the two sets are computed once)
generateSolvablePuzzle(md) == IF md = "easy" THEN EasyPuzzles ELSE HardPuzzles

OPERATORS == <<"+", "-", "*", "/", "(", ")">>
\* mode === 'easy' ? OPERATORS.filter((op) => op !== '/') : OPERATORS
\* Faulty variant: every operator is offered in both modes.
operatorList_All == OPERATORS

operatorList == IF mode = "easy" THEN SelectSeq(OPERATORS, LAMBDA op : op # "/") ELSE OPERATORS

NumToken(value, index) == [type |-> "num", text |-> toString(value), index |-> index]
OpToken(op) == [type |-> "op", text |-> <<op>>]

\* tokens.map((t) => t.text).join('')
RECURSIVE JoinTexts(_)
JoinTexts(ts) == IF ts = <<>> THEN <<>> ELSE Head(ts).text \o JoinTexts(Tail(ts))
input == JoinTexts(tokens)
\* the indices of the number tokens, in order (1-based here)
usedIndices == [k \in 1..Len(SelectSeq(tokens, LAMBDA t : t.type = "num")) |->
                    SelectSeq(tokens, LAMBDA t : t.type = "num")[k].index]
usedSet == Range(usedIndices)

Feedback(text, nextTone) == message' = text /\ tone' = nextTone
ResetAi == aiHint' = "" /\ aiError' = "" /\ aiStatus' = "idle"

\* The component as first rendered.
FirstRender ==
    /\ mode = "easy"
    /\ puzzle \in generateSolvablePuzzle("easy")
    /\ puzzleMode = "easy"
    /\ tokens = <<>>
    /\ message = ""
    /\ tone = "neutral"
    /\ hintLevel = 0
    /\ aiHint = ""
    /\ aiStatus = "idle"
    /\ aiError = ""
    /\ solutionOpen = FALSE
    /\ pending = 0
    /\ SearchIdle
    /\ StepIdle
    /\ GenIdle

UiInit ==
    /\ FirstRender
    /\ stale = NoneStale
    /\ tokenFloor = 0
    /\ tokenLimit = MaxTokens
    /\ pendingLimit = MaxPending

\* The player adds a token while the expression has at least tokenFloor
\* tokens and fewer than tokenLimit.
CanType == tokenFloor <= Len(tokens) /\ Len(tokens) < tokenLimit

\* Faulty variant: a button already used adds its number again.
appendNumber_AnyButton(index) ==
    /\ index \in 1..Len(puzzle.nums)
    /\ CanType
    /\ tokens' = Append(tokens, NumToken(puzzle.nums[index], index))
    /\ Feedback("", "neutral")
    /\ UNCHANGED <<mode, puzzle, hintLevel, aiHint, aiStatus, aiError, solutionOpen,
                   pending, puzzleMode, stale>>
    /\ UiOnly

\* A click on the number button at position index.
appendNumber(index) ==
    /\ index \in 1..Len(puzzle.nums)
    /\ index \in usedSet \/ CanType
    /\ IF index \in usedSet
       THEN UNCHANGED <<tokens, message, tone>>
       ELSE /\ tokens' = Append(tokens, NumToken(puzzle.nums[index], index))
            /\ Feedback("", "neutral")
    /\ UNCHANGED <<mode, puzzle, hintLevel, aiHint, aiStatus, aiError, solutionOpen,
                   pending, puzzleMode, stale>>
    /\ UiOnly

\* A click on one of the operator buttons shown.
appendOperator(op) ==
    /\ \E k \in 1..Len(operatorList) : operatorList[k] = op
    /\ CanType
    /\ tokens' = Append(tokens, OpToken(op))
    /\ Feedback("", "neutral")
    /\ UNCHANGED <<mode, puzzle, hintLevel, aiHint, aiStatus, aiError, solutionOpen,
                   pending, puzzleMode, stale>>
    /\ UiOnly

\* Faulty variant: the first token is taken off.
backspace_TakesFirst ==
    /\ tokens' = IF Len(tokens) > 0 THEN Tail(tokens) ELSE tokens
    /\ UNCHANGED <<mode, puzzle, message, tone, hintLevel, aiHint, aiStatus, aiError,
                   solutionOpen, pending, puzzleMode, stale>>
    /\ UiOnly

backspace ==
    /\ tokens' = IF Len(tokens) > 0 THEN SubSeq(tokens, 1, Len(tokens) - 1) ELSE tokens
    /\ UNCHANGED <<mode, puzzle, message, tone, hintLevel, aiHint, aiStatus, aiError,
                   solutionOpen, pending, puzzleMode, stale>>
    /\ UiOnly

\* Faulty variant: the state of the AI hint is left as it is.
ClearInputEffect_KeepsAi ==
    /\ tokens' = <<>>
    /\ hintLevel' = 0
    /\ Feedback("", "neutral")
    /\ UNCHANGED <<aiHint, aiError, aiStatus>>

ClearInputEffect ==
    /\ tokens' = <<>>
    /\ hintLevel' = 0
    /\ Feedback("", "neutral")
    /\ ResetAi

\* Faulty variant: Clear draws a new puzzle as well.
clearInput_Redraws ==
    /\ puzzle' \in generateSolvablePuzzle(mode)
    /\ puzzleMode' = mode
    /\ ClearInputEffect
    /\ solutionOpen' = FALSE
    /\ stale' = [on |-> stale.on,
                 pending |-> IF stale.on /\ puzzle' # puzzle THEN pending ELSE stale.pending,
                 hint |-> FALSE, error |-> FALSE]
    /\ UNCHANGED <<mode, pending>>
    /\ UiOnly

clearInput ==
    /\ ClearInputEffect
    /\ stale' = [stale EXCEPT !.hint = FALSE, !.error = FALSE]
    /\ UNCHANGED <<mode, puzzle, solutionOpen, pending, puzzleMode>>
    /\ UiOnly

\* nextPuzzle(nextMode), with the effect that follows the new puzzle
\* (setHintLevel(puzzle.hints.length), which clearInput's 0 equals).
NextPuzzleEffect(nextMode) ==
    /\ puzzle' \in generateSolvablePuzzle(nextMode)
    /\ puzzleMode' = nextMode
    /\ ClearInputEffect
    /\ solutionOpen' = FALSE
    /\ stale' = [on |-> stale.on,
                 pending |-> IF stale.on /\ puzzle' # puzzle THEN pending ELSE stale.pending,
                 hint |-> FALSE, error |-> FALSE]

\* "New Puzzle" and "Shuffle puzzle": nextPuzzle()
nextPuzzle ==
    /\ NextPuzzleEffect(mode)
    /\ UNCHANGED <<mode, pending>>
    /\ UiOnly

\* Faulty variant: the puzzle is generated for the mode being left.
toggleMode_StaleMode ==
    /\ mode' = IF mode = "easy" THEN "hard" ELSE "easy"
    /\ NextPuzzleEffect(mode)
    /\ UNCHANGED pending
    /\ UiOnly

\* Faulty variant: the toggle always goes to hard mode.
toggleMode_AlwaysHard ==
    /\ mode' = "hard"
    /\ NextPuzzleEffect("hard")
    /\ UNCHANGED pending
    /\ UiOnly

\* The mode button and "Switch to ...": toggleMode
toggleMode ==
    /\ mode' = IF mode = "easy" THEN "hard" ELSE "easy"
    /\ NextPuzzleEffect(mode')
    /\ UNCHANGED pending
    /\ UiOnly

\* fetchAiHint up to its await: nothing while a request is loading, else
\* the request is sent.
\* Faulty variant: the status is not looked at before the request is sent.
fetchAiHint_Unguarded ==
    /\ pending < pendingLimit
    /\ aiStatus' = "loading"
    /\ aiError' = ""
    /\ aiHint' = ""
    /\ pending' = pending + 1
    /\ stale' = [stale EXCEPT !.hint = FALSE, !.error = FALSE]
    /\ UNCHANGED <<mode, puzzle, tokens, message, tone, hintLevel, solutionOpen, puzzleMode>>
    /\ UiOnly

fetchAiHint ==
    /\ aiStatus = "loading" \/ pending < pendingLimit
    /\ IF aiStatus = "loading"
       THEN UNCHANGED <<aiStatus, aiError, aiHint, pending, stale>>
       ELSE /\ aiStatus' = "loading"
            /\ aiError' = ""
            /\ aiHint' = ""
            /\ pending' = pending + 1
            /\ stale' = [stale EXCEPT !.hint = FALSE, !.error = FALSE]
    /\ UNCHANGED <<mode, puzzle, tokens, message, tone, hintLevel, solutionOpen, puzzleMode>>
    /\ UiOnly

\* The response is ok and its body is JSON: data.hint, or the default text.
HintTexts == {"a hint", "No hint returned."}
\* The request answered is any of those in flight: one sent for an earlier
\* puzzle (old) or one sent for the puzzle displayed.
Answered(old) ==
    /\ pending > 0
    /\ IF old THEN stale.pending > 0 ELSE pending > stale.pending
    /\ pending' = pending - 1

hintArrives ==
    /\ \E old \in BOOLEAN :
        /\ Answered(old)
        /\ stale' = [stale EXCEPT !.pending = IF old THEN @ - 1 ELSE @, !.hint = old]
    /\ aiHint' \in HintTexts
    /\ aiStatus' = "idle"
    /\ UNCHANGED <<mode, puzzle, tokens, message, tone, hintLevel, aiError, solutionOpen,
                   puzzleMode>>
    /\ UiOnly

\* The response is not ok, or fetch or response.json() rejects: the catch.
hintFails ==
    /\ \E old \in BOOLEAN :
        /\ Answered(old)
        /\ stale' = [stale EXCEPT !.pending = IF old THEN @ - 1 ELSE @, !.error = old]
    /\ aiError' = "Could not fetch a hint right now. Please try again in a moment."
    /\ aiStatus' = "error"
    /\ UNCHANGED <<mode, puzzle, tokens, message, tone, hintLevel, aiHint, solutionOpen,
                   puzzleMode>>
    /\ UiOnly

\* Number.isFinite(value) && Math.abs(value - 24) < 1e-6
Is24(value) ==
    /\ value.kind = "fin"
    /\ AbsLessThanInv(FracSub(value.frac, Frac(Target, 1)), TargetTolInv)

\* `That equals ${value}. Keep going!`: the number is written by its
\* kind, its sign and its fraction in lowest terms.
ThatEquals(value) ==
    "That equals " \o ToString([value EXCEPT !.frac = Reduce(value.frac)])
        \o ". Keep going!"

\* Faulty variant: the count of the numbers used is not looked at.
checkSolution_AnyCount ==
    /\ IF Len(input) = 0
       THEN Feedback("Build an expression first.", "error")
       ELSE LET value == evaluateExpression(input)
            IN  IF value.kind = "throws"
                THEN Feedback("That expression is not valid.", "error")
                ELSE IF Is24(value)
                THEN Feedback("Great work! You made 24.", "success")
                ELSE Feedback(ThatEquals(value), "error")
    /\ UNCHANGED <<mode, puzzle, tokens, hintLevel, aiHint, aiStatus, aiError,
                   solutionOpen, pending, puzzleMode, stale>>
    /\ UiOnly

checkSolution ==
    /\ IF Len(input) = 0
       THEN Feedback("Build an expression first.", "error")
       ELSE IF Len(usedIndices) # Len(puzzle.nums)
       THEN Feedback("Use every number exactly once.", "error")
       ELSE LET value == evaluateExpression(input)
            IN  IF value.kind = "throws"
                THEN Feedback("That expression is not valid.", "error")
                ELSE IF Is24(value)
                THEN Feedback("Great work! You made 24.", "success")
                ELSE Feedback(ThatEquals(value), "error")
    /\ UNCHANGED <<mode, puzzle, tokens, hintLevel, aiHint, aiStatus, aiError,
                   solutionOpen, pending, puzzleMode, stale>>
    /\ UiOnly

\* The player opens or closes "Peek at a solution".
toggleSolution ==
    /\ solutionOpen' = ~solutionOpen
    /\ UNCHANGED <<mode, puzzle, tokens, message, tone, hintLevel, aiHint, aiStatus,
                   aiError, pending, puzzleMode, stale>>
    /\ UiOnly

Next ==
    \/ \E index \in 1..PuzzleSize : appendNumber(index)
    \/ \E k \in 1..Len(OPERATORS) : appendOperator(OPERATORS[k])
    \/ backspace
    \/ clearInput
    \/ nextPuzzle
    \/ toggleMode
    \/ fetchAiHint
    \/ hintArrives
    \/ hintFails
    \/ checkSolution
    \/ toggleSolution

Spec == UiInit /\ [][Next]_vars

HoldsSlash(text) == \E k \in 1..Len(text) : text[k] = "/"

\* C7: in every state of the game the solution of the current puzzle is a
\* fully parenthesized expression that uses each of the four numbers of
\* puzzle.nums exactly once and evaluates to 24.
C7_PuzzleSolutionValid ==
    LET r == ReadExpr(puzzle.solution)
    IN  /\ r.ok
        /\ Len(puzzle.nums) = PuzzleSize
        /\ SameMultiset(r.leaves, puzzle.nums)
        /\ EvaluatesTo24(puzzle.solution)

\* A later puzzle, in hard mode, with a solution that divides, while the
\* player has an expression under way and a hint request in flight.
C7_Witness ==
    /\ mode = "hard" /\ HoldsSlash(puzzle.solution)
    /\ tokens # <<>> /\ pending > 0
    /\ EvaluatesTo24(puzzle.solution)

\* C10: the current puzzle was generated for the current mode, and in easy
\* mode its solution holds no "/".
C10_PuzzleOfCurrentMode ==
    /\ puzzleMode = mode
    /\ puzzle \in generateSolvablePuzzle(mode)
    /\ mode = "easy" => ~HoldsSlash(puzzle.solution)

\* The toggle to hard has acted: the puzzle shown was generated for hard
\* mode, from numbers easy mode never serves, and its solution divides.
C10_Witness ==
    /\ mode = "hard" /\ puzzleMode = "hard"
    /\ Solve(puzzle.nums, "easy") = NoSolution
    /\ HoldsSlash(puzzle.solution)

\* --------------------------------------- findSolution, further claims --
IsSorted(q) == \A k \in 1..(Len(q) - 1) : q[k] <= q[k + 1]

\* C11: whether findSolution finds a solution depends on the multiset of
\* the inputs and the mode only: every order of the same four numbers is
\* solved exactly when the order at hand is.  (Each multiset is taken at its
\* sorted order and at the test vectors, and compared with all its orders.)
C11_OrderDoesNotMatter ==
    (Returned /\ (IsSorted(sNums) \/ sNums \in TestVectors)) =>
        \A p \in shuffle(sNums) :
            (findSolution(p, sMode) # NoSolution) <=> (sResult # NoSolution)

\* A solved input with another order of which the search returns another
\* text: the order matters to the text, not to the finding.
C11_Witness ==
    /\ Found /\ sMode = "hard" /\ IsSorted(sNums)
    /\ \E p \in shuffle(sNums) :
          /\ p # sNums
          /\ findSolution(p, sMode) # NoSolution
          /\ findSolution(p, sMode) # sResult

\* C12: in hard mode findSolution returns a solution on [1,2,3,4] and none
\* (null) on [1,1,1,1].
C12_KnownVectors ==
    (Returned /\ sMode = "hard") =>
        /\ sNums = <<1, 2, 3, 4>> => sResult # NoSolution
        /\ sNums = <<1, 1, 1, 1>> => sResult = NoSolution

\* The search has returned, in hard mode, on one of the two inputs.
C12_Witness ==
    /\ Returned /\ sMode = "hard"
    /\ \/ sNums = <<1, 2, 3, 4>> /\ EvaluatesTo24(sResult)
       \/ sNums = <<1, 1, 1, 1>> /\ sResult = NoSolution /\ ~CanMake24(sNums, "hard")

\* C13: in hard mode findSolution on [3,8,3,8] returns an expression that
\* uses 3, 8, 3, 8 once each and evaluates to 24.
C13_ThreeEightThreeEight ==
    (Returned /\ sMode = "hard" /\ sNums = <<3, 8, 3, 8>>) =>
        /\ sResult # NoSolution
        /\ ReadExpr(sResult).ok
        /\ SameMultiset(ReadExpr(sResult).leaves, <<3, 8, 3, 8>>)
        /\ EvaluatesTo24(sResult)

\* The search has returned on [3,8,3,8] in hard mode; what it returns
\* divides, and easy mode finds nothing for these numbers.
C13_Witness ==
    /\ Returned /\ sMode = "hard" /\ sNums = <<3, 8, 3, 8>>
    /\ sResult # NoSolution /\ HoldsSlash(sResult)
    /\ findSolution(sNums, "easy") = NoSolution


\* ------------------------------------------------ a round in play ----
\* The player at work on one puzzle: an expression stands in the input, the
\* player takes tokens off its end, adds others, clears it and checks it.
\* No new puzzle is drawn and no hint is asked for.
PlayWindow == 2

\* Puzzles generateSolvablePuzzle returns, with the mode they were drawn in.
PlayDraws ==
    {[md |-> "hard", nums |-> <<2, 4, 8, 7>>], [md |-> "easy", nums |-> <<4, 4, 4, 4>>],
     [md |-> "hard", nums |-> <<4, 4, 4, 4>>]}

PlayPuzzles ==
    {[md |-> r.md,
      round |-> [nums |-> r.nums, hints |-> <<>>, solution |-> findSolution(r.nums, r.md)]] :
        r \in {d \in PlayDraws : findSolution(d.nums, d.md) # NoSolution}}

\* The tokens of clicks on the operator buttons syms, in order.
OpTokens(syms) == [k \in 1..Len(syms) |-> OpToken(syms[k])]

BinaryGaps(md) == {<<OPERATORS[k]>> : k \in 1..(IF md = "easy" THEN 3 ELSE 4)}
JoinedGaps(md) == {<<>>} \cup BinaryGaps(md)
OddGaps(md) ==
    {<<"*", "*">>, <<"*", "*", "-">>, <<"-", "-">>, <<"+", "-">>}
        \cup (IF md = "easy" THEN {} ELSE {<<"/", "/">>, <<"/", "*">>, <<"*", "/">>})

\* The four numbers in the order of their buttons with operators between
\* them (none: the digits run together), and the same as two bracketed pairs.
FlatStarts(ns, md) ==
    {<<NumToken(ns[1], 1)>> \o OpTokens(g1) \o <<NumToken(ns[2], 2)>> \o OpTokens(g2)
        \o <<NumToken(ns[3], 3)>> \o OpTokens(g3) \o <<NumToken(ns[4], 4)>> :
        <<g1, g2, g3>> \in
            (JoinedGaps(md) \X JoinedGaps(md) \X JoinedGaps(md))
                \cup (JoinedGaps(md) \X BinaryGaps(md) \X OddGaps(md))}

PairedStarts(ns, md) ==
    {OpTokens(<<"(">>) \o <<NumToken(ns[1], 1)>> \o OpTokens(g1) \o <<NumToken(ns[2], 2)>>
        \o OpTokens(<<")">> \o g2 \o <<"(">>) \o <<NumToken(ns[3], 3)>> \o OpTokens(g3)
        \o <<NumToken(ns[4], 4)>> \o OpTokens(<<")">>) :
        <<g1, g2, g3>> \in BinaryGaps(md) \X BinaryGaps(md) \X BinaryGaps(md)}

PlayStarts(ns, md) == FlatStarts(ns, md) \cup PairedStarts(ns, md)

PlayInit ==
    /\ \E r \in PlayPuzzles :
        /\ mode = r.md
        /\ puzzleMode = r.md
        /\ puzzle = r.round
    /\ tokens \in PlayStarts(puzzle.nums, mode)
    /\ message = ""
    /\ tone = "neutral"
    /\ hintLevel = 0
    /\ aiHint = ""
    /\ aiStatus = "idle"
    /\ aiError = ""
    /\ solutionOpen = FALSE
    /\ pending = 0
    /\ stale = NoneStale
    /\ tokenFloor = Len(tokens) - PlayWindow
    /\ tokenLimit = Len(tokens)
    /\ pendingLimit = 0
    /\ SearchIdle
    /\ StepIdle
    /\ GenIdle

PlayNext ==
    \/ \E index \in 1..PuzzleSize : appendNumber(index)
    \/ \E k \in 1..Len(OPERATORS) : appendOperator(OPERATORS[k])
    \/ backspace
    \/ clearInput
    \/ checkSolution

PlaySpec == PlayInit /\ [][PlayNext]_vars

\* The number tokens of the expression
NumberTokens == SelectSeq(tokens, LAMBDA t : t.type = "num")

\* Every text the check evaluates has a value the model forms.
PlayModelled ==
    Len(usedIndices) = Len(puzzle.nums) => evaluateExpression(input).kind # "unmodelled"


\* C14: each number button is used at most once in the expression.  A click
\* on a button whose index is already used leaves the tokens as they are;
\* so in every state no two number tokens carry the same button index and
\* the expression holds at most PuzzleSize (four) number tokens.
C14_EachButtonOnce ==
    /\ [](/\ \A i, j \in 1..Len(usedIndices) :
                i # j => usedIndices[i] # usedIndices[j]
          /\ Len(NumberTokens) <= PuzzleSize)
    /\ [][\A index \in usedSet : appendNumber(index) => tokens' = tokens]_vars

\* All four buttons are used, and in another order than that of the
\* expression the round began with: the player took numbers off and put
\* them back by clicks, and each of the four buttons is now a used one.
C14_Witness ==
    /\ Len(usedIndices) = PuzzleSize
    /\ usedSet = 1..PuzzleSize
    /\ usedIndices # <<1, 2, 3, 4>>


\* C15: checkSolution rejects, whatever the expression is worth, an empty
\* expression with the error "Build an expression first." and any other
\* expression whose count of number tokens is not the count of the puzzle's
\* numbers with the error "Use every number exactly once."; the feedback of
\* neither is a success.
C15_RejectsBeforeEvaluating ==
    [][checkSolution =>
        /\ Len(input) = 0 =>
            message' = "Build an expression first." /\ tone' = "error"
        /\ (Len(input) # 0 /\ Len(NumberTokens) # Len(puzzle.nums)) =>
            message' = "Use every number exactly once." /\ tone' = "error"
        /\ (Len(input) = 0 \/ Len(NumberTokens) # Len(puzzle.nums)) =>
            tone' # "success" /\ message' # "Great work! You made 24."]_vars

\* The check has refused an expression that is worth 24 and leaves two of
\* the numbers out.
C15_Witness ==
    /\ message = "Use every number exactly once."
    /\ tone = "error"
    /\ Len(NumberTokens) = 2
    /\ Is24(evaluateExpression(input))


\* C16: when checkSolution runs on an expression that uses all four
\* numbers, the feedback is the success message "Great work! You made 24."
\* if and only if the expression evaluates to a finite value equal to 24;
\* otherwise the feedback has the error tone and reports the value ("That
\* equals ...") or, when the evaluation throws, "That expression is not
\* valid."; tokens, puzzle and mode are unchanged.
C16_SuccessIffEquals24 ==
    [][(checkSolution /\ Len(input) # 0 /\ Len(NumberTokens) = Len(puzzle.nums)) =>
        LET value == evaluateExpression(input)
            equals24 == value.kind = "fin" /\ FracEq(value.frac, Frac(Target, 1))
        IN  /\ (message' = "Great work! You made 24." /\ tone' = "success") <=> equals24
            /\ ~equals24 =>
                /\ tone' = "error"
                /\ message' = IF value.kind = "throws"
                              THEN "That expression is not valid."
                              ELSE ThatEquals(value)
            /\ UNCHANGED <<tokens, puzzle, mode>>]_vars

\* The success message stands over an expression of all four numbers whose
\* value is finite and is not 24.
C16_Witness ==
    /\ message = "Great work! You made 24."
    /\ tone = "success"
    /\ Len(NumberTokens) = Len(puzzle.nums)
    /\ evaluateExpression(input).kind = "fin"
    /\ ~FracEq(evaluateExpression(input).frac, Frac(Target, 1))


\* C20: backspace removes exactly the last token of the expression and
\* keeps the earlier ones in their order; on an empty expression it changes
\* nothing; when the token removed is a number, the button of that number
\* is unused afterwards, and a click on an unused button adds its number.
C20_BackspaceTakesLast ==
    /\ [][backspace =>
            IF Len(tokens) = 0 THEN UNCHANGED vars
            ELSE /\ tokens' = SubSeq(tokens, 1, Len(tokens) - 1)
                 /\ tokens[Len(tokens)].type = "num" =>
                        tokens[Len(tokens)].index \notin usedSet']_vars
    /\ [](\A index \in 1..PuzzleSize :
            (index \notin usedSet /\ CanType) =>
                ENABLED (/\ appendNumber(index)
                         /\ tokens' = Append(tokens, NumToken(puzzle.nums[index], index))))

\* The last number of the expression has been taken off and its button is
\* unused, the three before it are in place.
C20_Witness ==
    /\ Len(tokens) = tokenLimit - 1
    /\ usedIndices = <<1, 2, 3>>
    /\ CanType


\* ------------------------------------------------ hints on request ----
\* The player asks for hints, clears, draws puzzles and changes the mode
\* while answers are on their way; no token is typed.  One request more
\* than MaxPending can be in flight.
HintInit ==
    /\ FirstRender
    /\ stale = [NoneStale EXCEPT !.on = TRUE]
    /\ tokenFloor = 0
    /\ tokenLimit = 0
    /\ pendingLimit = MaxPending + 1

HintNext ==
    \/ clearInput
    \/ nextPuzzle
    \/ toggleMode
    \/ fetchAiHint
    \/ hintArrives
    \/ hintFails
    \/ checkSolution
    \/ toggleSolution

HintSpec == HintInit /\ [][HintNext]_vars

\* disabled={aiStatus === 'loading'} of the hint button
hintButtonDisabled == aiStatus = "loading"
\* {aiHint && aiStatus !== 'loading' && <p ...>{aiHint}</p>}
hintShown == aiHint # "" /\ aiStatus # "loading"
\* {aiError && <p ...>{aiError}</p>}
errorShown == aiError # ""

\* C17: while the hint status is "loading" the hint button is disabled, and
\* a further call of fetchAiHint sends no request and changes no state.
C17_NoSecondRequestWhileLoading ==
    /\ [](aiStatus = "loading" => hintButtonDisabled)
    /\ [][(aiStatus = "loading" /\ fetchAiHint) => UNCHANGED vars]_vars

\* A request is in flight, the status is "loading", and one more request
\* could be in flight.
C17_Witness ==
    /\ aiStatus = "loading"
    /\ hintButtonDisabled
    /\ pending >= 1
    /\ pending < pendingLimit

\* C18: every hint request that completes takes the hint state out of
\* "loading": a successful response sets the status to "idle" and the
\* returned hint is shown; a response that is not a success, or a failure of
\* the transport, sets the status to "error" with an error message and no
\* hint; and from "error" a new hint request can be issued.
C18_CompletionLeavesLoading ==
    /\ [][hintArrives => (aiStatus' = "idle" /\ aiHint' \in HintTexts /\ hintShown')]_vars
    /\ [][hintFails => (aiStatus' = "error" /\ errorShown' /\ ~hintShown')]_vars
    /\ [](aiStatus = "error" => ENABLED (fetchAiHint /\ aiStatus' = "loading"))

\* The status is "error" and the error message stands beside a hint.
C18_Witness ==
    /\ aiStatus = "error"
    /\ errorShown
    /\ hintShown

\* C19: after Clear, New Puzzle, Shuffle puzzle (both nextPuzzle) or a mode
\* toggle the expression is empty, no number button is marked used, the
\* feedback message is empty and the state of the AI hint is reset: status
\* "idle", no hint, no error.
C19_ResetsRound ==
    [][(clearInput \/ nextPuzzle \/ toggleMode) =>
        /\ tokens' = <<>>
        /\ usedSet' = {}
        /\ message' = ""
        /\ aiStatus' = "idle"
        /\ aiHint' = ""
        /\ aiError' = ""]_vars

\* A reset came while a request was in flight: nothing is typed, nothing is
\* shown, the status is "idle" and the answer is still to come.
C19_Witness ==
    /\ tokens = <<>>
    /\ message = ""
    /\ aiStatus = "idle"
    /\ aiHint = ""
    /\ aiError = ""
    /\ pending = pendingLimit
    /\ pending > 0


\* ------------------------------------------------ the game, further claims ----
Offered(op) == \E k \in 1..Len(operatorList) : operatorList[k] = op

\* C21: in every state with mode = easy the division operator is not among
\* the operators offered and no token of the expression is "/"; in hard
\* mode "/" is offered.
C21_DivisionOnlyInHard ==
    /\ mode = "easy" =>
        /\ ~Offered("/")
        /\ \A k \in 1..Len(tokens) : tokens[k].text # <<"/">>
    /\ mode = "hard" => Offered("/")

\* In hard mode the player has put the division sign into the expression
\* (the next mode toggle is to leave none in easy mode).
C21_Witness ==
    /\ mode = "hard"
    /\ Offered("/")
    /\ tokens = <<OpToken("/")>>

\* C22: the game starts in easy mode, and each mode toggle switches the
\* mode to the other one of easy and hard; there being two modes, two
\* toggles in a row return to the mode they began with.
C22_ToggleSwitchesMode ==
    /\ mode = "easy"
    /\ Cardinality(Modes) = 2
    /\ [][toggleMode => (mode \in Modes /\ mode' \in Modes \ {mode})]_vars

\* A toggle has left easy mode.
C22_Witness ==
    /\ mode = "hard"
    /\ puzzleMode = "hard"
    /\ tokens = <<>>
    /\ message = ""


\* ------------------------------------------------ search, further claims ----
\* C23: when the pool holds exactly one operand, search returns that
\* operand's expression if and only if its value is 24 (|value - 24| <
\* 1e-6); otherwise the call returns null; either way the call ends there
\* and applies no operator.
C23_BaseCase ==
    [][(Active /\ Len(Top.arr) = 1) =>
        LET x == Top.arr[1]
            is24 == AbsLessThanInv(FracSub(x.val, Frac(Target, 1)), TargetTolInv)
            returned == IF Len(stack) = 1 THEN sResult' ELSE retVal'
        IN  /\ stack' = Pop
            /\ Len(stack) > 1 => retSet'
            /\ lastCalc' = lastCalc
            /\ x.expr # NoSolution
            /\ is24 => returned = x.expr
            /\ ~is24 => returned = NoSolution]_vars

\* A pool of one operand worth 24 has just been returned to the caller,
\* three calls deep.
C23_Witness ==
    /\ sPc = "run"
    /\ retSet
    /\ retVal # NoSolution
    /\ Len(stack) = PuzzleSize - 1
    /\ EvaluatesTo24(retVal)


\* C24: every recursive call of search receives a pool exactly one smaller
\* than its caller's: the caller's operands but those at i and j, in their
\* order, and after them the one combined operand.  So from four inputs the
\* calls are at most four deep, with pools of 4, 3, 2 and 1 operands, and
\* the search terminates.
C24_PoolShrinks ==
    /\ [](/\ Len(stack) <= PuzzleSize
          /\ \A k \in 1..Len(stack) : Len(stack[k].arr) = PuzzleSize - k + 1
          /\ \A k \in 2..Len(stack) :
                LET caller == stack[k - 1]
                    kept == SelectSeq([m \in 1..Len(caller.arr) |-> m],
                                      LAMBDA m : m # caller.i /\ m # caller.j)
                    pool == stack[k].arr
                IN  /\ caller.i # caller.j
                    /\ Len(pool) = Len(caller.arr) - 1
                    /\ \A n \in 1..Len(kept) : pool[n] = caller.arr[kept[n]]
                    /\ pool[Len(pool)] =
                          Calc(OpSymbols[caller.o], caller.arr[caller.i], caller.arr[caller.j]))
    /\ <>(sPc = "ret")

\* The search is four calls deep, on a pool of one operand that came from
\* the operands at two positions that are not next to each other.
C24_Witness ==
    /\ Len(stack) = PuzzleSize
    /\ Len(Top.arr) = 1
    /\ stack[1].i = 3
    /\ stack[1].j = 1


\* The traversal as a list of choices: a path is the triple (i, j, operator)
\* taken in the pool of 4, then in the pool of 3, then in the pool of 2.
PathOps == <<"+", "-", "*", "/">>
Triples(n) == (1..n) \X (1..n) \X (1..Len(PathOps))
Paths == Triples(PuzzleSize) \X Triples(PuzzleSize - 1) \X Triples(PuzzleSize - 2)

\* The pool after the choice t in pool; <<>> when the choice is not made
\* (i = j, a division in easy mode, a division calc refuses).
PathStep(pool, md, t) ==
    IF pool = <<>> \/ t[1] = t[2] \/ (md = "easy" /\ PathOps[t[3]] = "/") THEN <<>>
    ELSE LET r == Calc(PathOps[t[3]], pool[t[1]], pool[t[2]])
             kept == SelectSeq([m \in 1..Len(pool) |-> m], LAMBDA m : m # t[1] /\ m # t[2])
         IN  IF r = Null THEN <<>>
             ELSE [n \in 1..(Len(pool) - 1) |-> IF n <= Len(kept) THEN pool[kept[n]] ELSE r]

PathEnd(nums, md, p) ==
    PathStep(PathStep(PathStep(Seeds(nums), md, p[1]), md, p[2]), md, p[3])

Wins(nums, md, p) ==
    /\ PathEnd(nums, md, p) # <<>>
    /\ AbsLessThanInv(FracSub(PathEnd(nums, md, p)[1].val, Frac(Target, 1)), TargetTolInv)

\* The place of a path in the order i, then j, then operator, level by level
TripleKey(t) == (t[1] * (PuzzleSize + 1) + t[2]) * (Len(PathOps) + 1) + t[3]
TripleSpan == (PuzzleSize + 1) * (PuzzleSize + 1) * (Len(PathOps) + 1)
PathKey(p) == (TripleKey(p[1]) * TripleSpan + TripleKey(p[2])) * TripleSpan + TripleKey(p[3])

FirstFound(nums, md) ==
    LET keys == {PathKey(p) : p \in {q \in Paths : Wins(nums, md, q)}}
    IN  IF keys = {} THEN NoSolution
        ELSE LET least == CHOOSE k \in keys : \A k2 \in keys : k <= k2
                 first == CHOOSE p \in Paths : PathKey(p) = least
             IN  PathEnd(nums, md, first)[1].expr

EnabledSteps ==
    {n \in 1..8 :
        \/ n = 1 /\ ENABLED BaseCase
        \/ n = 2 /\ ENABLED SkipSelfPair
        \/ n = 3 /\ ENABLED SkipDisabledOp
        \/ n = 4 /\ ENABLED RefuseCalc
        \/ n = 5 /\ ENABLED Combine
        \/ n = 6 /\ ENABLED Exhausted
        \/ n = 7 /\ ENABLED ReturnFound
        \/ n = 8 /\ ENABLED ContinueLoop}

\* C25: findSolution is deterministic and first-found.  The search has one
\* step to take in every state before its return; what it returns for a
\* 4-tuple and a mode is what findSolution as a function gives and is the
\* text of the first winning path in the order i ascending, then j
\* ascending (j # i), then the operators +, -, *, /; and a call that gets a
\* solution back from a recursive call returns it at once, trying nothing
\* more.
C25_FirstFound ==
    /\ [](/\ sPc = "run" => Cardinality(EnabledSteps) = 1
          /\ sPc = "ret" =>
                /\ sResult = findSolution(sNums, sMode)
                /\ sResult = FirstFound(sNums, sMode))
    /\ [][(sPc = "run" /\ retSet /\ retVal # NoSolution) =>
            /\ stack' = Pop
            /\ lastCalc' = lastCalc
            /\ (IF Len(stack) = 1 THEN sResult' ELSE retVal') = retVal]_vars

\* The search has returned a solution that is not on the first path tried:
\* paths before it were tried and gave nothing.
C25_Witness ==
    /\ sPc = "ret"
    /\ sResult # NoSolution
    /\ sResult = FirstFound(sNums, sMode)
    /\ \E p \in Paths : PathEnd(sNums, sMode, p) # <<>> /\ ~Wins(sNums, sMode, p)
                        /\ \A q \in Paths : Wins(sNums, sMode, q) => PathKey(p) < PathKey(q)


\* C26: every operand of every pool the search reaches (each pool is the
\* pool of the innermost call when it is reached) has a text that reads as
\* an expression without a division by 0 whose value under exact arithmetic
\* is the operand's val: the seeds to begin with, and every operand that
\* one of the four calc functions adds.
C26_OperandInvariant ==
    stack # <<>> =>
        \A k \in 1..Len(Top.arr) :
            LET r == ReadExpr(Top.arr[k].expr)
            IN  /\ r.ok
                /\ ~r.zeroDiv
                /\ r.val[2] > 0
                /\ Top.arr[k].val[2] > 0
                /\ FracEq(r.val, Top.arr[k].val)

\* A pool of two operands that a subtraction and a division made, the
\* division's value being no integer.
C26_Witness ==
    /\ stack # <<>>
    /\ Len(Top.arr) = 2
    /\ lastCalc.sym = "/"
    /\ ~lastCalc.refused
    /\ Top.arr[2].val[1] % Top.arr[2].val[2] # 0
    /\ \E k \in 1..Len(Top.arr[2].expr) : Top.arr[2].expr[k] = "-"
    /\ FracEq(ReadExpr(Top.arr[2].expr).val, Top.arr[2].val)


\* One round on any puzzle of either mode: every operation of the game but
\* those that draw a puzzle (New Puzzle, Shuffle puzzle, the mode toggle).
RoundInit ==
    /\ mode \in Modes
    /\ puzzle \in generateSolvablePuzzle(mode)
    /\ puzzleMode = mode
    /\ tokens = <<>>
    /\ message = ""
    /\ tone = "neutral"
    /\ hintLevel = 0
    /\ aiHint = ""
    /\ aiStatus = "idle"
    /\ aiError = ""
    /\ solutionOpen = FALSE
    /\ pending = 0
    /\ stale = NoneStale
    /\ tokenFloor = 0
    /\ tokenLimit = MaxTokens
    /\ pendingLimit = MaxPending
    /\ SearchIdle
    /\ StepIdle
    /\ GenIdle

RoundNext ==
    \/ \E index \in 1..PuzzleSize : appendNumber(index)
    \/ \E k \in 1..Len(OPERATORS) : appendOperator(OPERATORS[k])
    \/ backspace
    \/ clearInput
    \/ checkSolution
    \/ fetchAiHint
    \/ hintArrives
    \/ hintFails
    \/ toggleSolution

RoundSpec == RoundInit /\ [][RoundNext]_vars

\* C27: the puzzle (its numbers, their order, its solution) and the mode
\* are left as they are by every operation but New Puzzle, Shuffle puzzle
\* and the mode toggle: a click on a number or an operator, backspace,
\* Clear, Check, a hint request and the arrival or failure of its answer
\* (and the opening of the solution) do not change them.
C27_PuzzleAndModeKept ==
    [][(\/ \E index \in 1..PuzzleSize : appendNumber(index)
        \/ \E k \in 1..Len(OPERATORS) : appendOperator(OPERATORS[k])
        \/ backspace
        \/ clearInput
        \/ checkSolution
        \/ fetchAiHint
        \/ hintArrives
        \/ hintFails
        \/ toggleSolution) => (puzzle' = puzzle /\ mode' = mode)]_vars

\* A hard puzzle with a token typed, a check refused and a hint shown.
C27_Witness ==
    /\ mode = "hard"
    /\ Len(tokens) = 1
    /\ message = "Use every number exactly once."
    /\ aiHint # ""
    /\ aiStatus = "idle"
    /\ solutionOpen


\* C28: at any time at most one hint request is outstanding: whatever the
\* order of hint clicks, Clear, New Puzzle, mode toggles and answers, no
\* request is sent while an earlier one has not completed.
C28_OneRequestAtATime ==
    /\ [](pending <= 1)
    /\ [][pending' > pending => pending = 0]_vars

\* Two requests are in flight.
C28_Witness ==
    /\ pending = 2
    /\ aiStatus = "loading"


\* C29: an AI hint or a hint error on display answers a request sent for the
\* puzzle on display: after New Puzzle, Shuffle puzzle or a mode toggle the
\* answer to a request sent for the puzzle before is never shown.
C29_ShownForCurrentPuzzle ==
    /\ hintShown => ~stale.hint
    /\ errorShown => ~stale.error

\* The hint on display answers a request sent for an earlier puzzle, and no
\* request is in flight any more.
C29_Witness ==
    /\ hintShown
    /\ stale.hint
    /\ pending = 0


\* C30: whenever the feedback 'Great work! You made 24.' is on display, the
\* expression on display uses each of the four numbers of the puzzle exactly
\* once and evaluates to 24, also after the operations that follow a
\* successful check, backspace among them.
C30_SuccessMeansSolved ==
    message = "Great work! You made 24." =>
        /\ Len(usedIndices) = Len(puzzle.nums)
        /\ usedSet = 1..Len(puzzle.nums)
        /\ LET value == evaluateExpression(input)
           IN  value.kind = "fin" /\ FracEq(value.frac, Frac(Target, 1))

\* The success feedback stands over an expression that has lost its last
\* number to backspace.
C30_Witness ==
    /\ message = "Great work! You made 24."
    /\ tone = "success"
    /\ Len(NumberTokens) = Len(puzzle.nums) - 1
    /\ tokens # <<>>
    /\ tokens[Len(tokens)].type = "op"


\* C31: enabling division loses no solution: for every four numbers for
\* which findSolution finds a solution in easy mode, it finds one in hard
\* mode as well; and where the hard search returns null, so does the easy one.
C31_DivisionLosesNothing ==
    Returned =>
        /\ (sMode = "easy" /\ sResult # NoSolution) =>
            findSolution(sNums, "hard") # NoSolution
        /\ (sMode = "hard" /\ sResult = NoSolution) =>
            findSolution(sNums, "easy") = NoSolution

\* The easy search has found a solution, and the hard search of the same
\* numbers, which tries division on its way, finds another one.
C31_Witness ==
    /\ Found /\ sMode = "easy"
    /\ findSolution(sNums, "hard") # NoSolution
    /\ findSolution(sNums, "hard") # sResult
    /\ EvaluatesTo24(findSolution(sNums, "hard"))

====
